---- MODULE Spec2Model ----
(***************************************************************************)
(* A model of pants.channel.Channel (src/pants/channel.py): the channel    *)
(* state machine, its buffered write path with file transfers, its framed  *)
(* read path, and the readiness dispatch.                                  *)
(*                                                                         *)
(* Every public call (connect, listen, close, close_immediately, write,    *)
(* send_file, the assignment of read_delimiter) and every dispatch         *)
(* (_handle_events) is one action.  The code of a call is an operator on a *)
(* "world" record w that carries the channel's fields, the objects it      *)
(* touches (the file sources, the Engine's registration, the socket) and   *)
(* the answers the environment gives during the call: the results of the   *)
(* successive socket calls (sends, recvs, accepts) and what the owner's    *)
(* callbacks do (cbs).  An exception in flight is the field exc; every     *)
(* operator returns at once when it is set, which is how Python unwinds.   *)
(* The exception a call ends with is the field exc of the world it gives.  *)
(*                                                                         *)
(* Bytes passed to write() are numbered 1, 2, 3, ... in call order, the    *)
(* byte at offset k of file source f is -(10*f + k): the code never looks  *)
(* at the value of an outgoing byte, and the numbering makes loss,         *)
(* duplication and reordering visible.  Addresses (remote_addr,            *)
(* local_addr) are left out: no operation reads them.                      *)
(*                                                                         *)
(* Three state machines share the definitions.  Spec is the channel with   *)
(* all its calls and dispatches.  SpecRead is a connected channel that     *)
(* only receives, with a read_delimiter chosen before the first byte and   *)
(* the received stream and the delivered frames recorded.  SpecResolve is  *)
(* one call of _Channel._resolve_addr (src/pants/_channel.py), the address *)
(* resolution of the other channel lineage, with the DNS answer as a       *)
(* second step.                                                            *)
(***************************************************************************)
EXTENDS Integers, Sequences, FiniteSets, TLC

VARIABLES
    ch,      \* the Channel object's fields
    files,   \* the file objects handed to send_file: position, closed
    eng,     \* Engine.instance(): is the channel registered, with which events
    net,     \* the socket: bytes it accepted, its pending error (SO_ERROR)
    obs,     \* observation: callbacks fired so far, data accepted by write()
    res      \* one call of _Channel._resolve_addr: its arguments, the
             \* platform, and what it has called so far

vars == <<ch, files, eng, net, obs, res>>

----------------------------------------------------------------------------
(* Bounds of the model *)

\* total number of bytes the owner passes to write() in one behaviour
MaxWritten == 2
\* number of file sources the owner hands to send_file in one behaviour
MaxFiles == 1
\* number of bytes in every file source
FileLen == 2
\* initial _write_file_chunk (65536 in the source), scaled to the file length
ChunkSize == FileLen
\* the most bytes read_buffer holds before the environment stops sending
MaxReadBuf == 2

----------------------------------------------------------------------------
(* Values *)

READ == "READ"
WRITE == "WRITE"
ERROR == "ERROR"
HANGUP == "HANGUP"

\* Optional integer: None is <<>>, the integer n is <<n>>
None == <<>>
Some(n) == <<n>>

\* read_delimiter: None, an integer, or a string
DelimNone == [kind |-> "none", n |-> 0, s |-> <<>>]
DelimInt(k) == [kind |-> "int", n |-> k, s |-> <<>>]
DelimStr(t) == [kind |-> "str", n |-> 0, s |-> t]

Min(a, b) == IF a < b THEN a ELSE b

\* Python's s[k:]: without the first k elements, or for a negative k the
\* last -k elements
Drop(s, k) ==
    IF k >= Len(s) THEN <<>>
    ELSE IF k >= 0 THEN SubSeq(s, k + 1, Len(s))
    ELSE IF 0 - k >= Len(s) THEN s
    ELSE SubSeq(s, Len(s) + k + 1, Len(s))
\* Python's s[:k]: the first k elements, or for a negative k all but the
\* last -k elements
Take(s, k) ==
    IF k >= Len(s) THEN s
    ELSE IF k >= 0 THEN SubSeq(s, 1, k)
    ELSE IF 0 - k >= Len(s) THEN <<>>
    ELSE SubSeq(s, 1, Len(s) + k)

Range(s) == {s[i] : i \in 1..Len(s)}

IsPrefix(p, s) == Len(p) <= Len(s) /\ Take(s, Len(p)) = p

\* the content of file source f
FileByte(f, k) == 0 - (10 * f + k)
FileContent(f) == [k \in 1..FileLen |-> FileByte(f, k - 1)]

----------------------------------------------------------------------------
(* The world a call runs in *)

\* The state before a call, with the environment's answers for the call:
\*   cbs      what the owner's callbacks do, one entry per callback fired
\*            (a callback fired after the list is used up just returns)
\*   sends    the results of the successive socket.send calls
\*   recvs    the results of the successive socket.recv calls
\*   accepts  the results of the successive socket.accept calls
\* (a socket call made after its list is used up would block).  The call
\* leaves its logs: the Engine methods called, the callbacks fired, the bytes
\* socket.recv returned, the frames given to handle_read, and the socket
\* calls made with the result of each.
World(cbs, sends, recvs, accepts) ==
    [ch |-> ch, files |-> files, eng |-> eng, net |-> net, obs |-> obs,
     exc |-> "none", ret |-> 0, data |-> <<>>,
     cbs |-> cbs, sends |-> sends, recvs |-> recvs, accepts |-> accepts,
     calls |-> <<>>, fired |-> <<>>, rcvd |-> <<>>, frames |-> <<>>,
     sys |-> <<>>]

Quiet == World(<<>>, <<>>, <<>>, <<>>)

Raise(w, e) == [w EXCEPT !.exc = e]

\* what a callback of the owner may do
Behaviours == {"ret", "raise", "close", "close_immediately", "write"}

\* the data of the next write() of k bytes: the next k numbers, as far as
\* MaxWritten allows
FreshData(w, k) ==
    LET n == Len(w.obs.written)
        m == Min(k, MaxWritten - n)
    IN  [i \in 1..m |-> n + i]

----------------------------------------------------------------------------
(* Engine *)

add_channel(w) ==
    [w EXCEPT !.eng = [registered |-> TRUE, published |-> w.ch.events],
              !.calls = Append(@, "add")]

\* a modify_channel that does not reach the Engine
modify_channel_lost(w) == w

modify_channel(w) ==
    [w EXCEPT !.eng.published = w.ch.events, !.calls = Append(@, "modify")]

remove_channel(w) ==
    [w EXCEPT !.eng.registered = FALSE, !.calls = Append(@, "remove")]

----------------------------------------------------------------------------
(* Channel: general methods *)

\* what a callback may assign to self.read_delimiter before it returns
NewDelimiter ==
    [set_None |-> DelimNone, set_1 |-> DelimInt(1), set_2 |-> DelimInt(2),
     set_t |-> DelimStr(<<0>>)]

RECURSIVE close_immediately(_)
RECURSIVE close(_)
RECURSIVE write(_, _)
RECURSIVE _safely_call(_, _)
RECURSIVE RunCallback(_, _)

\* active() that goes by the flags without looking at the socket
active_by_flags(w) == w.ch.connected \/ w.ch.listening \/ w.ch.connecting

active(w) ==
    w.ch.socket /\ (w.ch.connected \/ w.ch.listening \/ w.ch.connecting)

readable(w) == ~w.ch.closing

writable(w) == Len(w.ch.write_buffer) > 0 \/ w.ch.write_file # 0

_add_event(w, event) ==
    IF event \notin w.ch.events
    THEN modify_channel([w EXCEPT !.ch.events = @ \cup {event}])
    ELSE w

\* socket.close() and the finally clause; the socket's close is taken not to
\* raise
_socket_close(w) ==
    [w EXCEPT !.ch.connected = FALSE, !.ch.listening = FALSE,
              !.ch.socket = FALSE]

\* a file.close() that leaves the source open
FileKeep(w, f) == w

\* file.close() of the source being sent; closes counts the calls
FileClose(w, f) ==
    [w EXCEPT !.files[f].closed = TRUE, !.files[f].closes = @ + 1]

\* close_immediately() without its test of active()
close_immediately_unguarded(w) ==
    LET w1 == IF w.ch.write_file # 0
              THEN [FileClose(w, w.ch.write_file) EXCEPT
                       !.ch.write_file = 0,
                       !.ch.write_file_left = None]
              ELSE w
        w2 == remove_channel(w1)
        w3 == _socket_close(w2)
    IN  _safely_call(w3, "handle_close")

close_immediately(w) ==
    IF ~active(w) THEN w
    ELSE LET w1 == IF w.ch.write_file # 0
                   THEN [FileClose(w, w.ch.write_file) EXCEPT
                            !.ch.write_file = 0,
                            !.ch.write_file_left = None]
                   ELSE w
             w2 == remove_channel(w1)
             w3 == _socket_close(w2)
         IN  _safely_call(w3, "handle_close")

\* A call of close_immediately() from the place `why` of the code.  obs.why and
\* obs.pending are observation only: the place whose call released the socket
\* of a channel that close() had left closing, and whether write_buffer or a
\* file transfer was still pending at that moment.
CloseFor(w, why) ==
    close_immediately(
        IF active(w) /\ w.ch.closing
        THEN [w EXCEPT
                !.obs.why = why,
                !.obs.pending = (w.ch.write_buffer # <<>> \/ w.ch.write_file # 0)]
        ELSE w)

\* close() that defers the release whether or not a write is pending
close_always_deferred(w) ==
    IF ~active(w) THEN w ELSE [w EXCEPT !.ch.closing = TRUE]

close(w) ==
    IF ~active(w) THEN w
    ELSE IF writable(w) THEN [w EXCEPT !.ch.closing = TRUE]
    ELSE CloseFor(w, "close")

\* a write that does not look at _closing
write_while_closing(w, data) ==
    IF ~active(w) THEN Raise(w, "IOError")
    ELSE _add_event([w EXCEPT !.ch.write_buffer = @ \o data,
                              !.obs.written = @ \o data], WRITE)

\* write(data).  obs.written and obs.ov are observation only: the data
\* accepted so far, and the data accepted while the latest file transfer
\* was active.
write(w, data) ==
    IF ~active(w) THEN Raise(w, "IOError")
    ELSE IF w.ch.closing THEN w
    ELSE LET w1 == IF w.ch.write_file = 0
                   THEN [w EXCEPT !.ch.write_buffer = @ \o data,
                                  !.obs.written = @ \o data]
                   ELSE [w EXCEPT !.ch.secondary_write_buffer = @ \o data,
                                  !.obs.written = @ \o data,
                                  !.obs.ov = @ \o data]
         IN  _add_event(w1, WRITE)

\* a write_file that takes a new file while another is being sent
write_file_replacing(w, f, length) ==
    IF ~active(w) THEN Raise(w, "IOError")
    ELSE IF w.ch.closing THEN w
    ELSE _add_event([w EXCEPT !.ch.write_file = f,
                              !.ch.write_file_left = length,
                              !.obs.nfiles = @ + 1,
                              !.obs.length = length,
                              !.obs.ov = <<>>], WRITE)

write_file(w, f, length) ==
    IF ~active(w) THEN Raise(w, "IOError")
    ELSE IF w.ch.closing THEN w
    ELSE IF w.ch.write_file # 0 THEN Raise(w, "IOError")
    ELSE \* obs.nfiles, obs.length and obs.ov are observation only
         _add_event([w EXCEPT !.ch.write_file = f,
                              !.ch.write_file_left = length,
                              !.obs.nfiles = @ + 1,
                              !.obs.length = length,
                              !.obs.ov = <<>>], WRITE)

\* One callback of the owner: it does what the head of cbs says.  A call it
\* makes that raises is not caught by the owner and leaves the callback.
\* handle_read is called with w.data.
RunCallback(w, name) ==
    LET b  == IF w.cbs = <<>> THEN "ret" ELSE Head(w.cbs)
        w1 == [w EXCEPT
                 !.cbs = IF w.cbs = <<>> THEN <<>> ELSE Tail(w.cbs),
                 !.fired = Append(@, name),
                 !.frames = IF name = "handle_read" THEN Append(@, w.data)
                            ELSE @,
                 !.obs.closes = IF name = "handle_close" THEN @ + 1 ELSE @,
                 !.obs.connects = IF name = "handle_connect" THEN @ + 1 ELSE @]
    IN  CASE b = "ret" -> w1
          [] b = "raise" -> Raise(w1, "Exception")
          [] b = "close" -> close(w1)
          [] b = "close_immediately" -> CloseFor(w1, "owner")
          [] b = "write" -> write(w1, FreshData(w1, 1))
          [] b \in DOMAIN NewDelimiter ->
                [w1 EXCEPT !.ch.read_delimiter = NewDelimiter[b]]

_safely_call(w, name) ==
    LET \* except Exception
        AfterCall(w1) ==
            IF w1.exc # "none"
            THEN CloseFor([w1 EXCEPT !.exc = "none"], "fault")
            ELSE w1
    IN  AfterCall(RunCallback(w, name))

----------------------------------------------------------------------------
(* Channel: socket method wrappers *)

\* _socket_connect with the result of socket.connect_ex
_handle_connect_event(w) ==
    _safely_call([w EXCEPT !.ch.connected = TRUE, !.ch.connecting = FALSE],
                 "handle_connect")

ConnectResults ==
    {"0", "EISCONN", "EWOULDBLOCK", "EINPROGRESS", "EALREADY", "EAGAIN",
     "ECONNREFUSED"}

_socket_connect(w, result) ==
    IF w.ch.connected THEN w
    ELSE LET w1 == IF ~w.ch.connecting
                   THEN [w EXCEPT !.ch.connected = FALSE,
                                  !.ch.connecting = TRUE]
                   ELSE w
         IN  IF ~w1.ch.socket THEN Raise(w1, "AttributeError")
             ELSE IF result \in {"0", "EISCONN"}
                  THEN _handle_connect_event(w1)
             ELSE IF result \in {"EWOULDBLOCK", "EINPROGRESS", "EALREADY"}
                  THEN _add_event(_add_event(w1, READ), WRITE)
             ELSE IF result = "EAGAIN" THEN w1
             ELSE Raise(w1, "socket.error")

\* a _socket_listen that forgets to mark the channel
_socket_listen_unmarked(w) == w

\* the backlog _socket_listen hands to socket.listen, os.name being os_name
ListenBacklog(os_name, backlog) ==
    IF os_name = "nt" /\ backlog > 5 THEN 5 ELSE backlog

\* _socket_listen; of the backlog, see ListenBacklog
_socket_listen(w) == [w EXCEPT !.ch.listening = TRUE]

\* _socket_accept: ret is 1 for an accepted socket, 0 for (None, ())
_socket_accept(w) ==
    IF ~w.ch.socket THEN Raise(w, "AttributeError")
    ELSE LET r  == IF w.accepts = <<>> THEN "wb" ELSE Head(w.accepts)
             w1 == [w EXCEPT !.accepts = IF @ = <<>> THEN <<>> ELSE Tail(@),
                             !.sys = Append(@, <<"accept", r>>)]
         IN  CASE r = "conn" -> [w1 EXCEPT !.ret = 1]
               [] r = "wb" -> [w1 EXCEPT !.ret = 0]
               [] r = "err" -> Raise(w1, "socket.error")

\* What the except clauses of _socket_send and _socket_recv make of the
\* errno of a socket.error: "wb", "peer" or "err" (raised again).
ErrnoClass(code) ==
    IF code \in {"EAGAIN", "EWOULDBLOCK"} THEN "wb"
    ELSE IF code \in {"ECONNABORTED", "ECONNRESET", "ENOTCONN", "ESHUTDOWN"}
         THEN "peer"
    ELSE "err"

\* _socket_send(data): ret is the number of bytes sent.  "one" and "all": the
\* socket accepts one byte, all of data; "wb": EAGAIN or EWOULDBLOCK; "peer":
\* ECONNABORTED, ECONNRESET, ENOTCONN or ESHUTDOWN; "err": another error.
_socket_send(w, data) ==
    IF ~w.ch.socket THEN Raise(w, "AttributeError")
    ELSE LET r  == IF w.sends = <<>> THEN "wb" ELSE Head(w.sends)
             w1 == [w EXCEPT !.sends = IF @ = <<>> THEN <<>> ELSE Tail(@),
                             !.sys = Append(@, <<"send", r>>)]
         IN  CASE r = "one" ->
                   [w1 EXCEPT !.net.sent = @ \o Take(data, 1), !.ret = 1]
               [] r = "all" ->
                   [w1 EXCEPT !.net.sent = @ \o data, !.ret = Len(data)]
               [] r = "wb" -> [w1 EXCEPT !.ret = 0]
               [] r = "peer" -> [CloseFor(w1, "peer") EXCEPT !.ret = 0]
               [] r = "err" -> Raise(w1, "socket.error")

\* _socket_recv: data is what it returns.  "data": recv returns bytes; "wb":
\* EAGAIN or EWOULDBLOCK; "peer": one of the four termination errors; "eof":
\* recv returns the empty string; "err": another error.
_socket_recv(w) ==
    IF ~w.ch.socket THEN Raise(w, "AttributeError")
    ELSE LET r  == IF w.recvs = <<>> THEN [k |-> "wb", d |-> <<>>]
                   ELSE Head(w.recvs)
             w1 == [w EXCEPT !.recvs = IF @ = <<>> THEN <<>> ELSE Tail(@),
                             !.sys = Append(@, <<"recv", r.k>>)]
         IN  CASE r.k = "data" -> [w1 EXCEPT !.data = r.d, !.rcvd = @ \o r.d]
               [] r.k = "wb" -> [w1 EXCEPT !.data = <<>>]
               [] r.k = "peer" -> [CloseFor(w1, "peer") EXCEPT !.data = <<>>]
               [] r.k = "eof" -> [CloseFor(w1, "peer") EXCEPT !.data = <<>>]
               [] r.k = "err" -> Raise(w1, "socket.error")

----------------------------------------------------------------------------
(* Channel: private event handlers *)

RECURSIVE AcceptLoop(_)
\* the while True loop of _handle_accept_event
AcceptLoop(w) ==
    LET AfterCall(w2) == IF w2.exc # "none" THEN w2 ELSE AcceptLoop(w2)
        AfterAccept(w1) ==
            IF w1.exc # "none" THEN w1
            ELSE IF w1.ret = 0 THEN w1
            ELSE AfterCall(_safely_call(w1, "handle_accept"))
    IN  AfterAccept(_socket_accept(w))

_handle_accept_event(w) == AcceptLoop(w)

RECURSIVE RecvLoop(_)
\* the receive loop of _handle_read_event
RecvLoop(w) ==
    LET AfterRecv(w1) ==
            IF w1.exc # "none" THEN w1
            ELSE IF w1.data = <<>> THEN w1
            ELSE RecvLoop([w1 EXCEPT !.ch.read_buffer = @ \o w1.data])
    IN  AfterRecv(_socket_recv(w))

\* a find that gives the last occurrence
FindLast(s, t) ==
    LET hits == {i \in 0..(Len(s) - Len(t)) :
                    SubSeq(s, i + 1, i + Len(t)) = t}
    IN  IF hits = {} THEN 0 - 1
        ELSE CHOOSE i \in hits : \A j \in hits : i >= j

\* str.find: the 0-based index of the first occurrence of t in s, -1 if none
Find(s, t) ==
    LET hits == {i \in 0..(Len(s) - Len(t)) :
                    SubSeq(s, i + 1, i + Len(t)) = t}
    IN  IF hits = {} THEN 0 - 1
        ELSE CHOOSE i \in hits : \A j \in hits : i <= j

\* a test that waits for more than n bytes
ShortOrEqual(buf, n) == Len(buf) <= n

\* if len(self._read_buffer) < delimiter
Short(buf, n) == Len(buf) < n

RECURSIVE CarveLatched(_)
\* a frame loop that reads self.read_delimiter once, before the loop
CarveLatched(w) ==
    IF w.ch.read_buffer = <<>> THEN w
    ELSE
    LET delimiter == w.ch.read_delimiter
        buf == w.ch.read_buffer
        mark == Find(buf, delimiter.s)
        stop == \/ delimiter.kind = "int" /\ Short(buf, delimiter.n)
                \/ delimiter.kind = "str" /\ mark = 0 - 1
                \/ delimiter.kind \notin {"none", "int", "str"}
        rest == CASE delimiter.kind = "none" -> <<>>
                  [] delimiter.kind = "int" -> Drop(buf, delimiter.n)
                  [] delimiter.kind = "str" ->
                        Drop(buf, mark + Len(delimiter.s))
                  [] OTHER -> buf
        data == CASE delimiter.kind = "none" -> buf
                  [] delimiter.kind = "int" -> Take(buf, delimiter.n)
                  [] delimiter.kind = "str" -> Take(buf, mark)
                  [] OTHER -> <<>>
        AfterCall(w1) ==
            IF w1.exc # "none" THEN w1
            ELSE IF ~active(w1) THEN w1
            ELSE CarveLatched([w1 EXCEPT !.ch.read_delimiter = delimiter])
    IN  IF stop THEN w
        ELSE AfterCall(_safely_call([w EXCEPT !.ch.read_buffer = rest,
                                              !.data = data],
                                    "handle_read"))

RECURSIVE CarveLoop(_)
\* the frame loop of _handle_read_event: while self._read_buffer
CarveLoop(w) ==
    IF w.ch.read_buffer = <<>> THEN w
    ELSE
    LET delimiter == w.ch.read_delimiter
        buf == w.ch.read_buffer
        mark == Find(buf, delimiter.s)
        stop == \/ delimiter.kind = "int" /\ Short(buf, delimiter.n)
                \/ delimiter.kind = "str" /\ mark = 0 - 1
                \/ delimiter.kind \notin {"none", "int", "str"}
        rest == CASE delimiter.kind = "none" -> <<>>
                  [] delimiter.kind = "int" -> Drop(buf, delimiter.n)
                  [] delimiter.kind = "str" ->
                        Drop(buf, mark + Len(delimiter.s))
                  [] OTHER -> buf
        data == CASE delimiter.kind = "none" -> buf
                  [] delimiter.kind = "int" -> Take(buf, delimiter.n)
                  [] delimiter.kind = "str" -> Take(buf, mark)
                  [] OTHER -> <<>>
        AfterCall(w1) ==
            IF w1.exc # "none" THEN w1
            ELSE IF ~active(w1) THEN w1
            ELSE CarveLoop(w1)
    IN  IF stop THEN w
        ELSE AfterCall(_safely_call([w EXCEPT !.ch.read_buffer = rest,
                                              !.data = data],
                                    "handle_read"))

_handle_read_event(w) ==
    LET AfterRecv(w1) == IF w1.exc # "none" THEN w1 ELSE CarveLoop(w1)
    IN  AfterRecv(RecvLoop(w))

RECURSIVE SendBufferRetry(_)
\* a send loop that goes on after a send that would block, as long as the
\* socket has another answer
SendBufferRetry(w) ==
    LET AfterSend(w1) ==
            IF w1.exc # "none" THEN w1
            ELSE IF w1.ret = 0 /\ w1.sends = <<>> THEN w1
            ELSE SendBufferRetry([w1 EXCEPT
                                    !.ch.write_buffer = Drop(@, w1.ret)])
    IN  IF w.ch.write_buffer = <<>> THEN w
        ELSE AfterSend(_socket_send(w, w.ch.write_buffer))

\* a send loop that takes a partial send for a complete one
SendBufferOnce(w) ==
    LET AfterSend(w1) ==
            IF w1.exc # "none" \/ w1.ret = 0 THEN w1
            ELSE [w1 EXCEPT !.ch.write_buffer = <<>>]
    IN  IF w.ch.write_buffer = <<>> THEN w
        ELSE AfterSend(_socket_send(w, w.ch.write_buffer))

RECURSIVE SendBufferLoop(_)
\* the send loop of _handle_write_buffer: while self._write_buffer
SendBufferLoop(w) ==
    LET AfterSend(w1) ==
            IF w1.exc # "none" THEN w1
            ELSE IF w1.ret = 0 THEN w1
            ELSE SendBufferLoop([w1 EXCEPT
                                   !.ch.write_buffer = Drop(@, w1.ret)])
    IN  IF w.ch.write_buffer = <<>> THEN w
        ELSE AfterSend(_socket_send(w, w.ch.write_buffer))

_handle_write_buffer(w) ==
    LET w1 == IF w.ch.secondary_write_buffer # <<>>
              THEN [w EXCEPT
                      !.ch.write_buffer = @ \o w.ch.secondary_write_buffer,
                      !.ch.secondary_write_buffer = <<>>]
              ELSE w
        AfterLoop(w2) ==
            IF w2.exc # "none" THEN w2 ELSE _safely_call(w2, "handle_write")
    IN  AfterLoop(SendBufferLoop(w1))

\* file.read(n) of source f: the bytes from its position on, at most n
FileRead(w, f, n) ==
    LET pos == w.files[f].pos
    IN  IF pos >= FileLen \/ n <= 0 THEN <<>>
        ELSE SubSeq(FileContent(f), pos + 1, Min(pos + n, FileLen))

\* a seek that leaves the position where the read left it
SeekNot(w, f, offset) == w

\* file.seek(offset, 1) of source f
Seek(w, f, offset) == [w EXCEPT !.files[f].pos = @ + offset]

RECURSIVE SendFileLoop(_, _, _)
\* the send loop of _handle_write_file: while out.  Gives the world and the
\* local variable written.
SendFileLoop(w, out, written) ==
    LET AfterSend(w1) ==
            IF w1.exc # "none" THEN [w |-> w1, written |-> written]
            ELSE IF w1.ret = 0 THEN [w |-> w1, written |-> written]
            ELSE SendFileLoop(w1, Drop(out, w1.ret), written + w1.ret)
    IN  IF out = <<>> THEN [w |-> w, written |-> written]
        ELSE AfterSend(_socket_send(w, out))

\* the end of _handle_write_file: if done
WriteFileDone(w) ==
    _safely_call([FileClose(w, w.ch.write_file) EXCEPT !.ch.write_file = 0],
                 "handle_write_file")

_handle_write_file(w) ==
    LET f == w.ch.write_file
        left == w.ch.write_file_left
        \* if self._write_file_left: neither None nor 0
        hasLeft == left # None /\ left # Some(0)
        to_write0 == IF hasLeft THEN Min(left[1], w.ch.write_file_chunk)
                     ELSE w.ch.write_file_chunk
        out == FileRead(w, f, to_write0)
        w1 == [w EXCEPT !.files[f].pos = @ + Len(out)]
        to_write == IF Len(out) < to_write0 THEN Len(out) ELSE to_write0
        limited == hasLeft \/ Len(out) < to_write0
        \* the rest of the method: closes the file and tells the owner if done
        Finish(w4, done) == IF done THEN WriteFileDone(w4) ELSE w4
        \* after the send loop, with the world and the bytes it has written
        AfterSends(w2, written) ==
            IF w2.exc # "none" THEN w2
            ELSE IF w2.ch.write_file = 0 THEN w2
            ELSE
            LET w3 == IF hasLeft
                      THEN [w2 EXCEPT
                              !.ch.write_file_left = Some(left[1] - written)]
                      ELSE w2
            IN  Finish(IF written < to_write
                       THEN [Seek(w3, f, written - to_write) EXCEPT
                               !.ch.write_file_chunk =
                                   IF ~limited THEN written ELSE @]
                       ELSE w3,
                       hasLeft /\ left[1] - written <= 0)
        AfterLoop(r) == AfterSends(r.w, r.written)
    IN  IF to_write = 0 THEN WriteFileDone(w1)
        ELSE AfterLoop(SendFileLoop(w1, out, 0))

_handle_write_event(w) ==
    IF w.ch.listening THEN w
    ELSE
    LET \* if not self._connected: socket.connect() has completed.  The call
        \* self._safely_call(self._handle_connect_event()) runs the handler
        \* and then calls its result, None: the TypeError is raised inside
        \* _safely_call's try, which closes the channel.
        Connected(w1) ==
            IF w1.exc # "none" THEN w1
            ELSE IF ~w.ch.connected /\ ~writable(w1) THEN w1
            ELSE IF w1.ch.write_buffer = <<>> /\ w1.ch.write_file # 0
                 THEN _handle_write_file(w1)
            ELSE _handle_write_buffer(w1)
    IN  Connected(IF w.ch.connected THEN w
                  ELSE IF w.net.so_error = 0
                       THEN CloseFor(_handle_connect_event(w), "fault")
                       ELSE Raise(w, "socket.error"))

\* the events the channel asks for at the end of a dispatch
UpdatedEvents(w) ==
    {ERROR} \cup (IF readable(w) THEN {READ} ELSE {})
            \cup (IF writable(w) THEN {WRITE} ELSE {})

_handle_events(w, events) ==
    IF ~active(w) THEN w
    ELSE
    LET \* Error event, update events
        AfterWrite(w2) ==
            IF w2.exc # "none" \/ (WRITE \in events /\ ~active(w2)) THEN w2
            ELSE IF ERROR \in events THEN CloseFor(w2, "error")
            ELSE IF ~writable(w2) /\ w2.ch.closing
                 THEN CloseFor(w2, "drained")
            ELSE IF UpdatedEvents(w2) # w2.ch.events
                 THEN modify_channel([w2 EXCEPT
                                        !.ch.events = UpdatedEvents(w2)])
            ELSE w2
        \* Write event
        AfterRead(w1) ==
            IF w1.exc # "none" \/ (READ \in events /\ ~active(w1)) THEN w1
            ELSE AfterWrite(IF WRITE \in events
                            THEN IF ~w1.ch.connected
                                 THEN _handle_connect_event(w1)
                                 ELSE _handle_write_event(w1)
                            ELSE w1)
    \* Read event
    IN  AfterRead(IF READ \in events
                  THEN IF w.ch.listening THEN _handle_accept_event(w)
                       ELSE IF ~w.ch.connected THEN _handle_connect_event(w)
                       ELSE _handle_read_event(w)
                  ELSE w)

----------------------------------------------------------------------------
(* Channel: public methods that take the environment's answer *)

connect(w, result) ==
    IF active(w) THEN w ELSE _socket_connect(w, result)

\* listen(): setsockopt, _socket_bind with the result of socket.bind,
\* _socket_listen
listen(w, bound) ==
    IF active(w) THEN w
    ELSE IF ~w.ch.socket THEN Raise(w, "AttributeError")
    ELSE IF ~bound THEN Raise(w, "socket.error")
    ELSE _socket_listen(w)

----------------------------------------------------------------------------
(* _Channel._resolve_addr *)

\* An address: a str (the path of a unix socket), an int (a port), or a
\* tuple (host, port) or (host, port, flowinfo, scope_id), held in t.
AddrStr == [kind |-> "str", t |-> <<>>]
AddrInt(port) == [kind |-> "int", t |-> <<port>>]
AddrTuple(t) == [kind |-> "tuple", t |-> t]
NoAddr == [kind |-> "none", t |-> <<>>]

\* the hosts socket.inet_pton takes for AF_INET6 and for AF_INET
V6Literals == {"::1", "2001:db8::1"}
V4Literals == {"127.0.0.1", "192.0.2.1"}

\* callback(addr, family) and callback(None, None, error)
Callback(r, addr, family) ==
    [r EXCEPT !.cbs = Append(@, [addr |-> addr, family |-> family,
                                 error |-> ""])]
CallbackError(r, error) ==
    [r EXCEPT !.cbs = Append(@, [addr |-> NoAddr, family |-> "",
                                 error |-> error])]

\* socket.getaddrinfo(host, port, fam)[0]: r.gai says whether the system
\* finds the host; info[4] is a sockaddr of the family, info[0] the family
NativeResolve(r, t, fam) ==
    LET Looked(r1) ==
            IF r1.gai = "fail" THEN CallbackError(r1, "gaierror")
            ELSE Callback(r1,
                          AddrTuple(IF fam = "AF_INET"
                                    THEN <<"192.0.2.1", t[2]>>
                                    ELSE <<"2001:db8::1", t[2], 0, 0>>),
                          fam)
    IN  Looked([r EXCEPT !.lookups = Append(@, <<t[1], t[2], fam>>)])

\* dns.query(host, qtype, callback=dns_callback)
DnsQuery(r, host, qtype) ==
    [r EXCEPT !.queries = Append(@, <<host, qtype>>)]

\* got_family: the two inet_pton tests; "" for None
GotFamily(r, t) ==
    IF r.ipv6 /\ t[1] \in V6Literals THEN "AF_INET6"
    ELSE IF Len(t) = 2 /\ t[1] \in V4Literals THEN "AF_INET"
    ELSE ""

_resolve_addr(r, addr, native_resolve) ==
    LET \* from `if addr[0] in ('', '<broadcast>')` on, addr being a tuple
        Tuple(t) ==
            IF t[1] \in {"", "<broadcast>"}
            THEN IF r.ipv6 THEN Callback(r, AddrTuple(t), "AF_INET6")
                 ELSE IF Len(t) = 4 THEN CallbackError(r, "FAMILY_ERROR")
                 ELSE Callback(r, AddrTuple(t), "AF_INET")
            ELSE IF GotFamily(r, t) # ""
                 THEN Callback(r, AddrTuple(t), GotFamily(r, t))
            ELSE IF native_resolve
                 THEN IF Len(t) = 2 THEN NativeResolve(r, t, "AF_INET")
                      ELSE IF ~r.ipv6 THEN CallbackError(r, "FAMILY_ERROR")
                      ELSE NativeResolve(r, t, "AF_INET6")
            ELSE IF Len(t) = 4
                 THEN IF ~r.ipv6 THEN CallbackError(r, "FAMILY_ERROR")
                      ELSE DnsQuery(r, t[1], <<"AAAA">>)
            ELSE DnsQuery(r, t[1], <<"AAAA", "A">>)
    IN  IF addr.kind = "str"
        THEN IF ~r.unix THEN CallbackError(r, "FAMILY_ERROR")
             ELSE Callback(r, addr, "AF_UNIX")
        ELSE IF addr.kind = "int" THEN Tuple(<<"">> \o addr.t)
        ELSE Tuple(addr.t)

RECURSIVE FirstRecordSilent(_, _, _)
\* a loop over rdata without the else that reports the family error
FirstRecordSilent(r, t, rdata) ==
    IF rdata = <<>> THEN r
    ELSE IF Head(rdata) \in V6Literals
         THEN IF ~r.ipv6 THEN FirstRecordSilent(r, t, Tail(rdata))
              ELSE Callback(r, AddrTuple(<<Head(rdata)>> \o Tail(t)),
                            "AF_INET6")
    ELSE Callback(r, AddrTuple(<<Head(rdata)>> \o Tail(t)), "AF_INET")

RECURSIVE FirstRecord(_, _, _)
\* the for loop of dns_callback over rdata, with its else
FirstRecord(r, t, rdata) ==
    IF rdata = <<>> THEN CallbackError(r, "FAMILY_ERROR")
    ELSE IF Head(rdata) \in V6Literals
         THEN IF ~r.ipv6 THEN FirstRecord(r, t, Tail(rdata))
              ELSE Callback(r, AddrTuple(<<Head(rdata)>> \o Tail(t)),
                            "AF_INET6")
    ELSE Callback(r, AddrTuple(<<Head(rdata)>> \o Tail(t)), "AF_INET")

\* a dns_callback that asks the DNS again when the answer is of no use
dns_callback_retry(r, t, status, rdata) ==
    IF status = "DNS_NAMEERROR" THEN CallbackError(r, "NAME_ERROR")
    ELSE IF status # "DNS_OK" \/ rdata = <<>>
         THEN _resolve_addr(r, AddrTuple(t), FALSE)
    ELSE FirstRecord(r, t, rdata)

\* dns_callback(status, cname, ttl, rdata) of the query for the tuple t
dns_callback(r, t, status, rdata) ==
    IF status = "DNS_NAMEERROR" THEN CallbackError(r, "NAME_ERROR")
    ELSE IF status # "DNS_OK" \/ rdata = <<>>
         THEN _resolve_addr(r, AddrTuple(t), TRUE)
    ELSE FirstRecord(r, t, rdata)

----------------------------------------------------------------------------
(* The environment's answers *)

\* What the callbacks fired by one call do: all return; the first or the
\* second misbehaves; the first misbehaves and handle_close, fired on the
\* close it causes, raises.
Misbehaviours == Behaviours \ {"ret"}

CbPlans ==
    {<<>>} \cup {<<b>> : b \in Misbehaviours}
           \cup {<<"ret", b>> : b \in Misbehaviours}
           \cup {<<b, "raise">> : b \in {"raise", "close_immediately"}}

\* for a call that fires handle_close at most
ClosePlans == {<<>>} \cup {<<b>> : b \in Misbehaviours}

\* without a fault: would block at once, one byte, one byte and then the
\* rest, everything
SendPlans == {<<>>, <<"one">>, <<"one", "all">>, <<"all">>}
SendFaults == {<<"peer">>, <<"err">>, <<"one", "err">>}

RecvData(d) == [k |-> "data", d |-> d]
RecvEnd(k) == [k |-> k, d |-> <<>>]

\* received bytes: 0 is the byte of the terminator, 1 any other byte
RecvChunks == {<<1>>, <<0>>, <<1, 0>>, <<1, 1>>}

\* the chunks that differ for the delimiter in force: without a delimiter
\* the content of a chunk decides nothing
RecvChunksFor(delimiter) ==
    IF delimiter.kind = "none" THEN {<<1>>} ELSE RecvChunks

RecvPlans(delimiter) ==
    {<<>>} \cup {<<RecvData(d)>> : d \in RecvChunksFor(delimiter)}
RecvFaults ==
    {<<RecvEnd("eof")>>, <<RecvEnd("peer")>>, <<RecvEnd("err")>>,
     <<RecvData(<<1>>), RecvEnd("eof")>>}

RECURSIVE RecvLen(_)
RecvLen(plan) ==
    IF plan = <<>> THEN 0 ELSE Len(Head(plan).d) + RecvLen(Tail(plan))

AcceptPlans == {<<>>, <<"conn">>, <<"conn", "conn">>}
AcceptFaults == {<<"err">>, <<"conn", "err">>}

Delimiters ==
    {DelimNone, DelimInt(1), DelimInt(2), DelimStr(<<0>>), DelimStr(<<0, 1>>)}

WriteLengths == 0..2

FileLengths == {None} \cup {Some(n) : n \in 0..FileLen}

\* the pending error of a connect in progress: 0, or ECONNREFUSED (111)
PendingErrors == {0, 111}

----------------------------------------------------------------------------
(* The state machine *)

\* Channel.__init__ with a fresh or a pre-existing socket
InitChannel ==
    /\ ch = [socket |-> TRUE, connected |-> FALSE, connecting |-> FALSE,
             listening |-> FALSE, closing |-> FALSE,
             read_delimiter |-> DelimNone, read_buffer |-> <<>>,
             write_buffer |-> <<>>, secondary_write_buffer |-> <<>>,
             write_file |-> 0, write_file_left |-> None,
             write_file_chunk |-> ChunkSize,
             events |-> {ERROR, READ}]
    /\ files = [f \in 1..MaxFiles |->
                  [pos |-> 0, closed |-> FALSE, closes |-> 0]]
    /\ eng = [registered |-> TRUE, published |-> {ERROR, READ}]
    /\ net = [sent |-> <<>>, so_error |-> 0]
    /\ obs = [closes |-> 0, connects |-> 0, written |-> <<>>, ov |-> <<>>,
              nfiles |-> 0, length |-> None, why |-> "none",
              pending |-> FALSE, stream |-> <<>>, frames |-> <<>>]

\* no address is being resolved
Unasked == [phase |-> "none"]

Init == InitChannel /\ res = Unasked

\* a channel that has a socket and has not connected, started to connect or
\* started to listen
Idle == ch.socket /\ ~ch.connected /\ ~ch.connecting /\ ~ch.listening

\* the state a call leaves
Commit(w) ==
    /\ ch' = w.ch
    /\ files' = w.files
    /\ eng' = w.eng
    /\ net' = w.net
    /\ obs' = w.obs
    /\ res' = res

\* the owner calls connect(host, port).  On an active channel it only logs,
\* and a closed channel has no socket to call: the result of connect_ex, the
\* pending error of a connect in progress and the callbacks matter for an
\* idle channel only.
Connect ==
    \E result \in IF active(Quiet) \/ ~ch.socket THEN {"0"} ELSE ConnectResults :
    \E pending \in IF active(Quiet) \/ ~ch.socket
                      \/ result \in {"0", "EISCONN", "ECONNREFUSED"}
                   THEN {net.so_error} ELSE PendingErrors :
    \E cbs \in IF active(Quiet) \/ ~ch.socket \/ result \notin {"0", "EISCONN"}
               THEN {<<>>} ELSE CbPlans :
        Commit(connect([World(cbs, <<>>, <<>>, <<>>) EXCEPT
                           !.net.so_error = pending], result))

\* the owner calls listen(port, host, backlog)
Listen ==
    \E bound \in IF active(Quiet) THEN {TRUE} ELSE BOOLEAN :
        Commit(listen(Quiet, bound))

\* the owner calls close()
Close ==
    \E cbs \in IF active(Quiet) /\ ~writable(Quiet) THEN ClosePlans ELSE {<<>>} :
        Commit(close(World(cbs, <<>>, <<>>, <<>>)))

\* the owner calls close_immediately()
CloseImmediately ==
    \E cbs \in IF active(Quiet) THEN ClosePlans ELSE {<<>>} :
        Commit(CloseFor(World(cbs, <<>>, <<>>, <<>>), "owner"))

\* the owner calls write(data) with data of n bytes
Write ==
    \E n \in WriteLengths :
        /\ Len(obs.written) + n <= MaxWritten
        /\ Commit(write(Quiet, FreshData(Quiet, n)))

\* the owner calls send_file(file, length) with a file source not used before
SendFile ==
    \E length \in FileLengths :
        /\ obs.nfiles < MaxFiles
        /\ Commit(write_file(Quiet, obs.nfiles + 1, length))

\* the owner assigns read_delimiter before the first byte arrives (no step
\* of Spec, whose channel keeps the delimiter it was created with)
SetReadDelimiter ==
    \E d \in Delimiters \ {ch.read_delimiter} :
        /\ obs.stream = <<>>
        /\ ch' = [ch EXCEPT !.read_delimiter = d]
        /\ UNCHANGED <<files, eng, net, obs, res>>

\* The answers of the environment during one dispatch with `events`.  A
\* dispatch has at most one kind of trouble: callbacks that misbehave, or a
\* fault of one of the socket calls.
DispatchAnswers(events) ==
    LET sending == WRITE \in events /\ ~ch.listening
        receiving == READ \in events /\ ch.connected /\ ~ch.listening
        accepting == READ \in events /\ ch.listening
        fits(p) == Len(ch.read_buffer) + RecvLen(p) <= MaxReadBuf
        S == IF sending THEN SendPlans ELSE {<<>>}
        R == IF receiving
             THEN {p \in RecvPlans(ch.read_delimiter) : fits(p)}
             ELSE {<<>>}
        A == IF accepting THEN AcceptPlans ELSE {<<>>}
        SF == IF sending THEN SendFaults ELSE {}
        RF == IF receiving THEN {p \in RecvFaults : fits(p)} ELSE {}
        AF == IF accepting THEN AcceptFaults ELSE {}
    IN  (CbPlans \X S \X R \X A)
        \cup ({<<>>} \X SF \X R \X A)
        \cup ({<<>>} \X S \X RF \X A)
        \cup ({<<>>} \X S \X R \X AF)

\* the Engine calls _handle_events(events) for a registered channel, with
\* events it was asked for
Dispatch ==
    /\ eng.registered
    /\ \E events \in (SUBSET eng.published) \ {{}} :
       \E a \in DispatchAnswers(events) :
           Commit(_handle_events(World(a[1], a[2], a[3], a[4]), events))

Next ==
    \/ Connect
    \/ Listen
    \/ Close
    \/ CloseImmediately
    \/ Write
    \/ SendFile
    \/ Dispatch

Spec == Init /\ [][Next]_vars

----------------------------------------------------------------------------
(* The state machine of a channel that only receives *)

\* the longest stream the peer sends
MaxStream == 5

\* what one socket.recv returns: one or two bytes, 0 and 1 being the bytes
\* the terminators are made of
ReadChunks == {<<0>>, <<1>>, <<0, 0>>, <<0, 1>>, <<1, 0>>, <<1, 1>>}

\* the socket.recv calls of one dispatch: up to two chunks, and then either
\* nothing more for now or the end of the stream
ReadPlans ==
    LET D == {RecvData(c) : c \in ReadChunks}
        Clean == {<<>>} \cup {<<a>> : a \in D} \cup {<<a, b>> : a, b \in D}
    IN  Clean \cup {Append(p, RecvEnd("eof")) : p \in Clean}

\* the state a dispatch leaves, with what it received and delivered added to
\* obs.stream and obs.frames (observation only)
CommitRead(w) ==
    Commit([w EXCEPT !.obs.stream = @ \o w.rcvd,
                     !.obs.frames = @ \o w.frames])

\* the owner calls connect(host, port) and the connection is made at once
Established ==
    /\ Idle
    /\ Commit(connect(Quiet, "0"))

\* the Engine calls _handle_events(READ) for a registered channel whose
\* callbacks just return
Receive ==
    /\ eng.registered /\ READ \in eng.published
    /\ ch.connected
    /\ \E plan \in ReadPlans :
           /\ Len(obs.stream) + RecvLen(plan) <= MaxStream
           /\ CommitRead(_handle_events(World(<<>>, <<>>, plan, <<>>), {READ}))

NextRead ==
    \/ Established
    \/ SetReadDelimiter
    \/ Receive

SpecRead == Init /\ [][NextRead]_vars

----------------------------------------------------------------------------
(* The state machine of one address resolution *)

Hosts == {"", "<broadcast>", "127.0.0.1", "::1", "example.com"}

\* the addresses given to _resolve_addr
Addrs ==
    {AddrStr, AddrInt(80)}
        \cup {AddrTuple(<<h, 80>>) : h \in Hosts}
        \cup {AddrTuple(<<h, 80, 7, 3>>) : h \in Hosts}

\* what the DNS answers: a status and the records
DnsStatuses == {"DNS_OK", "DNS_NAMEERROR", "DNS_SERVFAIL"}
DnsRecords ==
    {<<>>, <<"192.0.2.1">>, <<"2001:db8::1">>,
     <<"192.0.2.1", "2001:db8::1">>, <<"2001:db8::1", "192.0.2.1">>}

\* a call of _resolve_addr about to be made: its arguments, the platform
\* (HAS_IPV6, socket.AF_UNIX) and the answer the system resolver has
ResolveInputs ==
    [phase : {"new"}, addr : Addrs, native : BOOLEAN,
     ipv6 : BOOLEAN, unix : BOOLEAN, gai : {"ok", "fail"},
     cbs : {<<>>}, lookups : {<<>>}, queries : {<<>>}]

InitResolve == InitChannel /\ res \in ResolveInputs

\* self._resolve_addr(addr, native_resolve, callback) returns
Resolve ==
    LET Returned(r) ==
            [r EXCEPT !.phase = IF r.queries # <<>> THEN "waiting"
                                ELSE "done"]
    IN  /\ res.phase = "new"
        /\ res' = Returned(_resolve_addr(res, res.addr, res.native))
        /\ UNCHANGED <<ch, files, eng, net, obs>>

\* the DNS calls dns_callback with its answer to the query
DnsAnswer ==
    /\ res.phase = "waiting"
    /\ \E status \in DnsStatuses : \E rdata \in DnsRecords :
           res' = [dns_callback(res, res.addr.t, status, rdata)
                      EXCEPT !.phase = "done"]
    /\ UNCHANGED <<ch, files, eng, net, obs>>

NextResolve ==
    \/ Resolve
    \/ DnsAnswer

SpecResolve == InitResolve /\ [][NextResolve]_vars

----------------------------------------------------------------------------
(* Properties *)

Active == active(Quiet)
Closed == ~ch.socket
Pending == ch.write_buffer # <<>> \/ ch.write_file # 0

\* C1: with no file transfer, the bytes the socket accepted are at all times a
\* prefix of the written data in call order, and nothing is lost, repeated or
\* reordered: what was accepted followed by what write_buffer still holds is
\* exactly what was written, so that the two are equal once write_buffer has
\* drained.
C1_WrittenDataSentInOrder ==
    obs.nfiles = 0 =>
        /\ IsPrefix(net.sent, obs.written)
        /\ net.sent \o ch.write_buffer = obs.written

\* C1 witness: a connected channel whose writes were all accepted by the socket
C1_Witness ==
    /\ ch.connected /\ ch.socket /\ obs.nfiles = 0
    /\ Len(obs.written) = MaxWritten
    /\ net.sent = obs.written
    /\ ch.write_buffer = <<>>

\* the bytes send_file(f, length) is to deliver
Requested(f, length) ==
    IF length = None THEN FileContent(f) ELSE Take(FileContent(f), length[1])

\* C2: send_file(f, n) on a connected channel with empty buffers, followed by
\* write(tail) and no other write, delivers the first n bytes of f and then
\* tail.  Stated for the moment the channel has stopped asking for Writable:
\* from then on no write event is delivered, so what has been sent by then is
\* all that will ever be sent.
C2_FileThenTailDelivered ==
    (/\ Active /\ ch.connected /\ ~ch.listening /\ ~ch.closing
     /\ obs.nfiles = 1 /\ obs.length # Some(0)
     /\ obs.ov # <<>> /\ obs.written = obs.ov
     /\ WRITE \notin ch.events /\ WRITE \notin eng.published)
    => net.sent = Requested(1, obs.length) \o obs.ov

\* C3: no byte written while a file transfer is active is sent before the
\* transfer has completed; such bytes stay in the overflow buffer.
C3_OverflowWaitsForFile ==
    ch.write_file # 0 =>
        \A i \in 1..Len(obs.ov) :
            /\ obs.ov[i] \notin Range(net.sent)
            /\ obs.ov[i] \in Range(ch.secondary_write_buffer)

\* the places of the code that close a channel by force
Forced == {"owner", "error", "peer", "fault"}

\* C4, as claimed: the socket of a channel left closing by close() is released,
\* with one close notification, only after write_buffer has emptied and no
\* file transfer remains.
C4_ReleasedOnlyWhenDrained ==
    (Closed /\ ch.closing) => (obs.closes = 1 /\ ~obs.pending)

\* C4, amended: close() with a write pending does not release the socket but
\* leaves the channel closing; a closing channel holds its socket exactly as
\* long as a write is pending, with no close notification; and its socket is
\* released, with one close notification, when nothing is pending any more,
\* or earlier only by a forced close (close_immediately() by the owner, an
\* error event, a peer-termination error, a callback fault).
C4_ReleasedWhenDrainedOrForced ==
    /\ (Active /\ Pending) =>
          LET w == close(Quiet)
          IN  w.ch.socket /\ w.ch.closing /\ w.eng.registered
              /\ w.obs.closes = obs.closes /\ w.fired = <<>>
    /\ (ch.socket /\ ch.closing) => (Pending /\ obs.closes = 0)
    /\ (Closed /\ ch.closing) =>
          /\ obs.closes = 1
          /\ obs.pending => obs.why \in Forced

\* C4 witness: a closing channel whose socket was released by the dispatch in
\* which the last pending byte was sent
C4_Witness ==
    /\ Closed /\ ch.closing /\ obs.why = "drained" /\ obs.closes = 1
    /\ net.sent = obs.written /\ obs.written # <<>>

\* C5: the close notification has fired exactly once for a channel that is
\* closed and never for one that is not.
C5_CloseNotifiedOnce == obs.closes = IF Closed THEN 1 ELSE 0

\* C5 witness: a channel closed after it had connected
C5_Witness == Closed /\ obs.closes = 1 /\ obs.connects = 1

\* C6: from every state in which the channel holds a socket,
\* close_immediately() releases the socket and deregisters the channel.
C6_CloseImmediatelyReleases ==
    ch.socket =>
        \A cbs \in ClosePlans :
            LET w == close_immediately(World(cbs, <<>>, <<>>, <<>>))
            IN  ~w.ch.socket /\ ~w.eng.registered

\* the state of a world, without what is left of the environment's answers
StateOf(w) == <<w.ch, w.files, w.eng, w.net, w.obs>>

\* C7: close_immediately() on a closed channel changes nothing, calls the
\* Engine for nothing and fires no callback; two calls in a row leave the state
\* one call leaves.
C7_CloseImmediatelyIdempotent ==
    \A cbs1 \in ClosePlans : \A cbs2 \in ClosePlans :
        LET w1 == close_immediately(World(cbs1, <<>>, <<>>, <<>>))
            w2 == close_immediately([w1 EXCEPT !.cbs = cbs2, !.calls = <<>>,
                                               !.fired = <<>>])
        IN  /\ StateOf(w2) = StateOf(w1)
            /\ w2.calls = <<>> /\ w2.fired = <<>> /\ w2.exc = "none"
            /\ Closed => (StateOf(w1) = StateOf(Quiet) /\ w1.calls = <<>>
                          /\ w1.fired = <<>>)

\* C7 witness: a closed channel whose connecting flag outlived its socket,
\* and on which a further close_immediately() does nothing
C7_Witness ==
    /\ Closed /\ ch.connecting /\ obs.closes = 1
    /\ StateOf(close_immediately(Quiet)) = StateOf(Quiet)

\* C8: on a connected channel that is not closing, Writable is in the interest
\* set exactly if write_buffer is non-empty or a file transfer is active.
C8_WritableIffPending ==
    (ch.socket /\ ch.connected /\ ~ch.closing) =>
        (WRITE \in ch.events <=> Pending)

\* C9: at most one of connecting, listening, connected holds, and exactly one
\* while the channel is active.
C9_OneRole ==
    LET roles == {r \in {"connecting", "listening", "connected"} : ch[r]}
    IN  /\ Cardinality(roles) <= 1
        /\ Active => Cardinality(roles) = 1

\* C10: a connect whose pending error is not zero never leaves the channel
\* connected and never fires the connect notification.
C10_ConnectOnlyWithoutError ==
    net.so_error # 0 => (~ch.connected /\ obs.connects = 0)


WouldBlockResults == {"EWOULDBLOCK", "EINPROGRESS", "EALREADY", "EAGAIN"}

\* C11: connect() on an Idle channel: when connect_ex completes at once the
\* channel is Connected and handle_connect has fired exactly once; when it
\* answers with any would-block code (EWOULDBLOCK, EINPROGRESS, EALREADY or
\* EAGAIN) the channel is Connecting and Writable is in its interest set, the
\* one it keeps and the one the engine was told.
C11_ConnectFromIdle ==
    LET Completed(w) ==
            /\ w.exc = "none"
            /\ w.ch.connected /\ ~w.ch.connecting
            /\ w.fired = <<"handle_connect">>
            /\ w.obs.connects = obs.connects + 1
        Waiting(w) ==
            /\ w.exc = "none"
            /\ w.ch.connecting /\ ~w.ch.connected
            /\ w.fired = <<>>
            /\ WRITE \in w.ch.events
            /\ WRITE \in w.eng.published
    IN  Idle =>
            /\ Completed(connect(Quiet, "0"))
            /\ \A result \in WouldBlockResults : Waiting(connect(Quiet, result))


\* C12: listen() on an Idle channel binds the socket, marks it passive and
\* leaves the channel Listening with Readable in its interest set; it fires no
\* connect notification and changes no buffer.  A Listening channel that is
\* not Closing keeps Readable in its interest set.
C12_ListenFromIdle ==
    LET Listening(w) ==
            /\ w.exc = "none"
            /\ w.ch.socket /\ w.ch.listening
            /\ ~w.ch.connected /\ ~w.ch.connecting /\ ~w.ch.closing
            /\ READ \in w.ch.events /\ READ \in w.eng.published
            /\ w.fired = <<>>
            /\ w.obs.connects = obs.connects
            /\ w.ch.read_buffer = ch.read_buffer
            /\ w.ch.write_buffer = ch.write_buffer
            /\ w.ch.secondary_write_buffer = ch.secondary_write_buffer
            /\ w.ch.write_file = ch.write_file
            /\ w.net = net
    IN  /\ Idle => Listening(listen(Quiet, TRUE))
        /\ (ch.socket /\ ch.listening /\ ~ch.closing) =>
               (READ \in ch.events /\ READ \in eng.published)

C12_Witness ==
    /\ ch.socket /\ ch.listening /\ ~ch.connected /\ ~ch.connecting
    /\ obs.connects = 0
    /\ READ \in eng.published


\* C13: listen() on a channel that is already active (connected, connecting
\* or listening, with a socket) raises a fault to its caller and leaves the
\* state of the channel unchanged.
C13_ListenOnActiveRaises ==
    LET Refused(w) ==
            /\ w.exc # "none"
            /\ w.ch = ch /\ w.files = files /\ w.eng = eng /\ w.net = net
    IN  Active => \A bound \in BOOLEAN : Refused(listen(Quiet, bound))


\* C14 as stated: while a file is being sent, send_file() raises a usage
\* error and leaves the file being sent, its remaining length, both write
\* buffers and the interest set unchanged.
C14_SecondTransferRaises ==
    LET Refused(w) == w.exc = "IOError" /\ w.ch = ch /\ w.eng = eng
    IN  ch.write_file # 0 =>
            \A f \in 1..MaxFiles : \A length \in FileLengths :
                Refused(write_file(Quiet, f, length))

\* C14: while a file is being sent, send_file() leaves the file being sent,
\* its remaining length, both write buffers and the interest set unchanged;
\* it raises a usage error unless the channel is Closing, where the call is
\* ignored like any other write.
C14_SecondTransferRefused ==
    LET Refused(w) ==
            /\ w.exc = IF ch.closing THEN "none" ELSE "IOError"
            /\ w.ch = ch /\ w.files = files /\ w.eng = eng /\ w.net = net
    IN  ch.write_file # 0 =>
            \A f \in 1..MaxFiles : \A length \in FileLengths :
                Refused(write_file(Quiet, f, length))

C14_Witness ==
    /\ Active /\ ~ch.closing
    /\ ch.write_file # 0
    /\ ch.write_file_left # None
    /\ ch.secondary_write_buffer # <<>>


\* C15: write() and send_file() change the channel only when it is active
\* and not Closing.  On a channel that is not active they raise IOError, on
\* a Closing channel they return without an error, and in both cases
\* write_buffer, the overflow buffer, the file transfer and the interest set
\* (and everything else) stay as they were.
C15_WritesNeedOpenChannel ==
    LET Untouched(w) ==
            /\ w.exc = IF Active THEN "none" ELSE "IOError"
            /\ StateOf(w) = StateOf(Quiet)
            /\ w.fired = <<>> /\ w.calls = <<>>
    IN  (~Active \/ ch.closing) =>
            /\ \A n \in WriteLengths :
                   Untouched(write(Quiet, [i \in 1..n |-> i]))
            /\ \A f \in 1..MaxFiles : \A length \in FileLengths :
                   Untouched(write_file(Quiet, f, length))

C15_Witness ==
    /\ Active /\ ch.closing
    /\ ch.write_buffer # <<>>
    /\ obs.nfiles < MaxFiles


\* C16: every file source send_file() accepted is closed exactly once by the
\* channel: a source is open while it is the one being sent, has been closed
\* once as soon as it no longer is (the transfer completed, or the channel
\* was closed by close_immediately() or by a peer-termination error), and is
\* never closed twice; the channel never closes a source it did not accept.
\* A Closed channel holds no file transfer, so its last source is closed.
C16_SourceClosedOnce ==
    /\ \A f \in 1..MaxFiles :
           /\ files[f].closes <= 1
           /\ files[f].closed <=> files[f].closes = 1
           /\ f > obs.nfiles => files[f].closes = 0
           /\ (f <= obs.nfiles /\ f = ch.write_file) => files[f].closes = 0
           /\ (f <= obs.nfiles /\ f # ch.write_file) => files[f].closes = 1
    /\ ch.write_file \in 0..obs.nfiles
    /\ Closed => ch.write_file = 0

\* a channel closed in the middle of a transfer
C16_Witness ==
    /\ Closed
    /\ obs.nfiles >= 1
    /\ files[obs.nfiles].closes = 1
    /\ files[obs.nfiles].pos < FileLen
    /\ obs.length = None


\* The stream s read byte by byte with the terminator t, `frame` being the
\* bytes of the frame begun: where t stands the frame ends, t is skipped and
\* a new frame begins behind it.  Gives the complete frames, and the bytes
\* that belong to none yet.
RECURSIVE Scan(_, _, _)
Scan(frame, s, t) ==
    LET Ended(r) == [frames |-> <<frame>> \o r.frames, rest |-> r.rest]
    IN  IF Len(s) < Len(t) THEN [frames |-> <<>>, rest |-> frame \o s]
        ELSE IF Take(s, Len(t)) = t
             THEN Ended(Scan(<<>>, Drop(s, Len(t)), t))
        ELSE Scan(Append(frame, Head(s)), Tail(s), t)

FramesOf(s, t) == Scan(<<>>, s, t).frames
RestOf(s, t) == Scan(<<>>, s, t).rest

\* C17 as stated: with a terminator t the frames delivered are those of the
\* received stream, however the stream was split across socket reads and
\* dispatches.
C17_FramesOfStream ==
    ch.read_delimiter.kind = "str" =>
        obs.frames = FramesOf(obs.stream, ch.read_delimiter.s)

\* C17: with a non-empty terminator t, on a channel that is still open, the
\* frames delivered so far are those of the received stream, however it was
\* split across socket reads and dispatches: each frame is what precedes the
\* earliest occurrence of t, t itself is dropped, scanning goes on behind it,
\* and what read_buffer holds is the rest of the stream, which has no
\* complete occurrence of t.
C17_FramesOfStreamWhileOpen ==
    (ch.read_delimiter.kind = "str" /\ Active) =>
        /\ obs.frames = FramesOf(obs.stream, ch.read_delimiter.s)
        /\ ch.read_buffer = RestOf(obs.stream, ch.read_delimiter.s)
        /\ \A i \in 1..(Len(ch.read_buffer) - Len(ch.read_delimiter.s) + 1) :
               SubSeq(ch.read_buffer, i, i + Len(ch.read_delimiter.s) - 1)
                   # ch.read_delimiter.s

\* an open channel that has delivered two frames, the second one empty
C17_Witness ==
    /\ Active
    /\ ch.read_delimiter = DelimStr(<<0, 1>>)
    /\ obs.stream = <<1, 0, 1, 0, 1>>
    /\ obs.frames = <<<<1>>, <<>>>>
    /\ ch.read_buffer = <<>>


\* the stream s cut into pieces of n bytes: the complete pieces in order, and
\* the incomplete one at the end
Pieces(s, n) == [i \in 1..(Len(s) \div n) |-> SubSeq(s, (i - 1) * n + 1, i * n)]
Remainder(s, n) == SubSeq(s, Len(s) - (Len(s) % n) + 1, Len(s))

\* C18 as stated: with a frame length n >= 1, when L bytes have been
\* available, L \div n frames of n bytes each have been delivered in stream
\* order and the other L % n bytes are in read_buffer.
C18_FixedFrames ==
    ch.read_delimiter.kind = "int" =>
        /\ obs.frames = Pieces(obs.stream, ch.read_delimiter.n)
        /\ ch.read_buffer = Remainder(obs.stream, ch.read_delimiter.n)

\* C18: with a frame length n >= 1, on a channel that is still open: no
\* frame is delivered while fewer than n bytes are there, and after every
\* dispatch the frames delivered are the successive pieces of n bytes of the
\* stream, as many as are complete, and read_buffer holds the bytes behind
\* them, fewer than n.
C18_FixedFramesWhileOpen ==
    (ch.read_delimiter.kind = "int" /\ Active) =>
        /\ Len(obs.frames) = Len(obs.stream) \div ch.read_delimiter.n
        /\ obs.frames = Pieces(obs.stream, ch.read_delimiter.n)
        /\ ch.read_buffer = Remainder(obs.stream, ch.read_delimiter.n)
        /\ Len(ch.read_buffer) < ch.read_delimiter.n

\* two frames of two bytes delivered and a fifth byte waiting
C18_Witness ==
    /\ Active
    /\ ch.read_delimiter = DelimInt(2)
    /\ obs.stream = <<1, 0, 0, 1, 1>>
    /\ obs.frames = <<<<1, 0>>, <<0, 1>>>>
    /\ ch.read_buffer = <<1>>


\* answers in which a socket call would block although the socket would
\* have more to give to a later call
SendStalls == {<<"wb", "all">>, <<"one", "wb", "all">>}
RecvStalls == {<<RecvEnd("wb"), RecvData(<<1>>)>>}
AcceptStalls == {<<"wb", "conn">>, <<"conn", "wb", "conn">>}

\* the results of a socket call after which a loop goes on
Progress == {"one", "all", "data", "conn"}

\* C19: in one dispatch the receive loop, the send loop of the write buffer,
\* the send loop of a file chunk and the accept loop each stop at the first
\* call that would block: every socket call but the last of its kind
\* received, sent or accepted something, so that the calls of a kind are at
\* most one more than the answers the socket had and the send calls at most
\* one more than the bytes sent; and the dispatch comes to an end.
C19_LoopsStopAtWouldBlock ==
    LET Of(w, kind) == SelectSeq(w.sys, LAMBDA c : c[1] = kind)
        Stops(s) == \A i \in 1..(Len(s) - 1) : s[i][2] \in Progress
        Ends(w, a) ==
            /\ w.exc \in {"none", "socket.error", "AttributeError"}
            /\ \A kind \in {"recv", "send", "accept"} : Stops(Of(w, kind))
            /\ Len(Of(w, "send")) <= Len(a[2]) + 1
            /\ Len(Of(w, "recv")) <= Len(a[3]) + 1
            /\ Len(Of(w, "accept")) <= Len(a[4]) + 1
            /\ Len(Of(w, "send")) <= Len(w.net.sent) - Len(net.sent) + 1
            /\ Len(Of(w, "recv")) <= Len(w.rcvd) + 1
        Stalls == ({<<>>} \X SendStalls \X {<<>>} \X {<<>>})
                  \cup ({<<>>} \X {<<>>} \X RecvStalls \X {<<>>})
                  \cup ({<<>>} \X {<<>>} \X {<<>>} \X AcceptStalls)
    IN  eng.registered =>
            \A events \in (SUBSET eng.published) \ {{}} :
            \A a \in DispatchAnswers(events) \cup Stalls :
                Ends(_handle_events(World(a[1], a[2], a[3], a[4]), events), a)

\* a channel with two bytes to send, of which a dispatch can send the first,
\* be told to wait and go on
C19_Witness ==
    /\ Active /\ ch.connected /\ ~ch.listening
    /\ WRITE \in eng.published
    /\ Len(ch.write_buffer) = 2
    /\ ch.write_file = 0


\* the addresses that need no name lookup: a path, a port, a tuple whose
\* host is the wildcard, the broadcast address or a numeric literal
Literal == res.addr.kind = "tuple" /\ res.addr.t[1] \in V6Literals \cup V4Literals
Wildcard ==
    \/ res.addr.kind = "int"
    \/ res.addr.kind = "tuple" /\ res.addr.t[1] \in {"", "<broadcast>"}

\* C20: for an address that needs no name lookup, _resolve_addr has called
\* the callback once when it returns and has asked neither the DNS nor the
\* system resolver; a path gives AF_UNIX (where the platform has it); a port,
\* the wildcard or the broadcast host gives AF_INET6 with IPv6, and without
\* it AF_INET for a 2-tuple and the family error for a 4-tuple; a numeric
\* literal, in a 2-tuple or a 4-tuple, with or without IPv6, gives the
\* family of the literal.
C20_NoLookupForLiterals ==
    LET Once == Len(res.cbs) = 1 /\ res.queries = <<>> /\ res.lookups = <<>>
        Family(f) == res.cbs[1].error = "" /\ res.cbs[1].family = f
    IN  res.phase \in {"waiting", "done"} =>
            /\ (res.addr.kind = "str" /\ res.unix) =>
                   Once /\ Family("AF_UNIX") /\ res.cbs[1].addr = res.addr
            /\ Wildcard =>
                   /\ Once
                   /\ res.ipv6 => Family("AF_INET6")
                   /\ (~res.ipv6 /\ Len(res.addr.t) <= 2) => Family("AF_INET")
                   /\ (~res.ipv6 /\ Len(res.addr.t) = 4) =>
                          res.cbs[1].error = "FAMILY_ERROR"
            /\ Literal =>
                   /\ Once
                   /\ res.cbs[1].addr = res.addr
                   /\ res.addr.t[1] \in V6Literals => Family("AF_INET6")
                   /\ res.addr.t[1] \in V4Literals => Family("AF_INET")


\* C21: whatever the address, the IPv6 support, the resolution mode and the
\* answer of the DNS (which calls dns_callback once per query), a resolution
\* calls the callback exactly once: not before the DNS has answered a query
\* that was made, once when it is over, never twice; and the call carries
\* either an address with its family or an error with neither.
C21_CallbackExactlyOnce ==
    LET WellFormed(c) ==
            \/ c.error = "" /\ c.addr.kind \in {"str", "tuple"}
                            /\ c.family \in {"AF_UNIX", "AF_INET", "AF_INET6"}
            \/ c.error \in {"FAMILY_ERROR", "NAME_ERROR", "gaierror"}
                  /\ c.addr = NoAddr /\ c.family = ""
    IN  res.phase # "none" =>
            /\ res.phase = "new" => res.cbs = <<>>
            /\ res.phase = "waiting" => res.cbs = <<>> /\ Len(res.queries) = 1
            /\ res.phase = "done" => Len(res.cbs) = 1
            /\ \A i \in 1..Len(res.cbs) : WellFormed(res.cbs[i])

\* a resolution that asked the DNS, fell back to the system resolver and
\* reported its failure
C21_Witness ==
    /\ res.phase = "done"
    /\ Len(res.queries) = 1 /\ Len(res.lookups) = 1
    /\ Len(res.cbs) = 1 /\ res.cbs[1].error = "gaierror"


\* C22: when a callback of the owner raises during a dispatch, the dispatch
\* returns to the Engine without an exception, with the channel Closed and
\* handle_close fired.
C22_CallbackFaultContained ==
    LET Raised(w, cbs) ==
            \E i \in 1..(Len(cbs) - Len(w.cbs)) : cbs[i] = "raise"
        Contained(w, cbs) ==
            Raised(w, cbs) =>
                /\ w.exc = "none"
                /\ ~w.ch.socket
                /\ w.obs.closes = obs.closes + 1
    IN  eng.registered =>
            \A events \in (SUBSET eng.published) \ {{}} :
            \A a \in CbPlans \X SendPlans \X {<<>>} \X AcceptPlans :
                Contained(_handle_events(World(a[1], a[2], a[3], a[4]),
                                         events), a[1])


\* the bytes of file source f among the bytes in `sent`, in order
FileSent(sent, f) == SelectSeq(sent, LAMBDA b : b < 0 /\ (0 - b) \div 10 = f)

\* the bytes of each source the socket accepted are the beginning of its
\* content, and the source being sent is positioned behind them
InStep(c, fs, sent) ==
    /\ \A f \in 1..MaxFiles : IsPrefix(FileSent(sent, f), FileContent(f))
    /\ c.write_file # 0 =>
           fs[c.write_file].pos = Len(FileSent(sent, c.write_file))

\* C23: whatever the declared length and however the sends of a dispatch are
\* cut short or made to wait, the file bytes the socket has accepted are a
\* beginning of the file's content, in order, without gap or repetition,
\* and after the dispatch the source being sent is positioned at the number
\* of its bytes accepted so far: a dispatch without another socket error
\* keeps this true.
C23_FileBytesInStep ==
    LET Kept(w) == InStep(w.ch, w.files, w.net.sent)
    IN  (eng.registered /\ InStep(ch, files, net.sent)) =>
            \A events \in (SUBSET eng.published) \ {{}} :
            \A a \in (CbPlans \X (SendPlans \cup SendStalls \cup {<<"peer">>})
                          \X {<<>>} \X {<<>>}) :
                Kept(_handle_events(World(a[1], a[2], a[3], a[4]), events))

\* a transfer of which the socket has accepted the first byte only
C23_Witness ==
    /\ Active /\ ch.write_file = 1
    /\ files[1].pos = 1
    /\ FileSent(net.sent, 1) = <<FileByte(1, 0)>>
    /\ InStep(ch, files, net.sent)


\* C24: handle_write_file fires at most once in a dispatch, for the file
\* being sent, and only when the declared length has been sent or the whole
\* content of the source has been; it does not fire, and the source is not
\* closed as complete, while bytes of the requested range are unsent, also
\* after a dispatch in which the socket accepted nothing.
C24_FileSentOnlyWhenComplete ==
    LET Fired(w) == {i \in 1..Len(w.fired) : w.fired[i] = "handle_write_file"}
        Complete(sent) ==
            \/ obs.length # None /\ obs.length # Some(0)
                  /\ Len(sent) >= obs.length[1]
            \/ sent = FileContent(ch.write_file)
        Rightly(w) ==
            /\ Cardinality(Fired(w)) <= 1
            /\ Fired(w) # {} => Complete(FileSent(w.net.sent, ch.write_file))
    IN  (eng.registered /\ ch.write_file # 0 /\ InStep(ch, files, net.sent)) =>
            \A events \in (SUBSET eng.published) \ {{}} :
            \A sends \in SendPlans \cup SendStalls :
                Rightly(_handle_events(World(<<>>, sends, <<>>, <<>>), events))


\* C25: a dispatch whose events contain ERROR or HANGUP leaves an active
\* channel Closed with handle_close fired, whatever the pending error of the
\* socket and whatever other events come with it.
C25_ErrorOrHangupCloses ==
    LET Closes(w) == ~w.ch.socket /\ w.obs.closes = obs.closes + 1
        Masks == {e \in SUBSET (eng.published \cup {ERROR, HANGUP}) :
                     ERROR \in e \/ HANGUP \in e}
    IN  (Active /\ eng.registered) =>
            \A events \in Masks : \A pending \in PendingErrors :
                Closes(_handle_events([Quiet EXCEPT !.net.so_error = pending],
                                      events))


\* the errors by which a peer ends a connection
PeerTermination ==
    {"ECONNRESET", "EPIPE", "ENOTCONN", "ESHUTDOWN", "ECONNABORTED"}

\* C26: each of the five peer-termination errors, raised by socket.send or
\* by socket.recv on a connected channel, leaves the channel Closed with
\* handle_close fired, and the wrapper returns without an exception.
C26_PeerTerminationCloses ==
    LET Closes(w) ==
            /\ w.exc = "none"
            /\ ~w.ch.socket
            /\ w.obs.closes = obs.closes + 1
    IN  (Active /\ ch.connected /\ ~ch.listening) =>
            \A code \in PeerTermination :
                /\ Closes(_socket_send(World(<<>>, <<ErrnoClass(code)>>,
                                             <<>>, <<>>), <<1>>))
                /\ Closes(_socket_recv(World(<<>>, <<>>,
                                             <<RecvEnd(ErrnoClass(code))>>,
                                             <<>>)))


\* C27: when socket.send, socket.recv or socket.accept raises, during a
\* dispatch, an error that is neither would-block nor peer termination, the
\* dispatch returns to the Engine without an exception and the channel is
\* Closed and no longer registered.
C27_OtherErrorsClose ==
    LET Failed(w) == \E i \in 1..Len(w.sys) : w.sys[i][2] = "err"
        Contained(w) ==
            Failed(w) =>
                /\ w.exc = "none"
                /\ ~w.ch.socket
                /\ ~w.eng.registered
        Faults == ({<<>>} \X SendFaults \X {<<>>} \X {<<>>})
                  \cup ({<<>>} \X {<<>>} \X RecvFaults \X {<<>>})
                  \cup ({<<>>} \X {<<>>} \X {<<>>} \X AcceptFaults)
    IN  eng.registered =>
            \A events \in (SUBSET eng.published) \ {{}} : \A a \in Faults :
                Contained(_handle_events(World(a[1], a[2], a[3], a[4]),
                                         events))


\* the bytes the socket.recv calls of a plan give, in order
RECURSIVE RecvBytes(_)
RecvBytes(plan) ==
    IF plan = <<>> THEN <<>>
    ELSE IF Head(plan).k = "data" THEN Head(plan).d \o RecvBytes(Tail(plan))
    ELSE <<>>

\* C28: when the handler of a frame assigns read_delimiter, the frames that
\* follow in the same dispatch are carved under the new value, also from
\* bytes that were buffered before the handler ran: the frames delivered
\* are the first frame of the available bytes under the old value, then
\* the frames of the bytes behind it under the new one.
C28_NextFrameUnderNewMode ==
    LET Under(s, d) ==
            CASE d.kind = "none" -> IF s = <<>> THEN <<>> ELSE <<s>>
              [] d.kind = "int" -> Pieces(s, d.n)
              [] d.kind = "str" -> FramesOf(s, d.s)
        Behind(s, d, frame) ==
            CASE d.kind = "none" -> <<>>
              [] d.kind = "int" -> Drop(s, d.n)
              [] d.kind = "str" -> Drop(s, Len(frame) + Len(d.s))
        Expected(s, first, d, new) ==
            IF first = <<>> THEN <<>>
            ELSE <<first[1]>> \o Under(Behind(s, d, first[1]), new)
        Arrives(s, b, w) ==
            w.frames = Expected(s, Under(s, ch.read_delimiter),
                                ch.read_delimiter, NewDelimiter[b])
    IN  (Active /\ ch.connected /\ ~ch.listening) =>
            \A plan \in {p \in ReadPlans : \A i \in 1..Len(p) : p[i].k = "data"} :
                \A b \in DOMAIN NewDelimiter :
                    Arrives(ch.read_buffer \o RecvBytes(plan), b,
                            _handle_events(World(<<b>>, <<>>, plan, <<>>),
                                           {READ}))

\* an open channel framing by terminator, with the beginning of a header
\* in read_buffer: the terminator and the next bytes are still to come
C28_Witness ==
    /\ Active /\ ch.connected
    /\ ch.read_delimiter = DelimStr(<<0>>)
    /\ ch.read_buffer = <<1>>
    /\ READ \in eng.published


\* C29: once the handler of a frame has called close() or
\* close_immediately() or has raised, no further frame is delivered in that
\* dispatch, whatever read_buffer still holds and also when writes are
\* pending: whatever read_delimiter the owner has assigned, a dispatch whose
\* first handler does so delivers one frame at most.
C29_NoFrameAfterStop ==
    LET Stopped(w) == Len(w.frames) <= 1
        Framing(w, d) == [w EXCEPT !.ch.read_delimiter = d]
    IN  (Active /\ ch.connected /\ ~ch.listening) =>
            \A c \in ReadChunks : \A d \in Delimiters :
                \A b \in {"close", "close_immediately", "raise"} :
                    Stopped(_handle_events(
                                Framing(World(<<b>>, <<>>, <<RecvData(c)>>,
                                              <<>>), d),
                                {READ}))


\* C30: handle_write fires only at a moment when write_buffer is empty: a
\* write dispatch in which the socket takes part of the buffer or nothing,
\* and that leaves bytes in write_buffer, does not fire it.
C30_DrainedOnlyWhenEmpty ==
    LET Fired(w) == \E i \in 1..Len(w.fired) : w.fired[i] = "handle_write"
        Drained(w) == Fired(w) => w.ch.write_buffer = <<>>
    IN  (Active /\ ch.connected /\ ~ch.listening) =>
            \A sends \in SendPlans \cup SendStalls :
                Drained(_handle_events(World(<<>>, sends, <<>>, <<>>),
                                       {WRITE}))


\* C31: of a source sent with a declared length n >= 0 the socket never
\* accepts more than n bytes; with n = 0 it accepts none.
C31_AtMostDeclaredLength ==
    (obs.nfiles > 0 /\ obs.length # None) =>
        Len(FileSent(net.sent, obs.nfiles)) <= obs.length[1]


\* C32: a resolution asks the DNS once at most.  When it has asked and the
\* DNS answers: a name error is reported at once as NAME_ERROR, without a
\* system lookup; any other status than DNS_OK, or no record, leads to
\* exactly one system lookup and no further query; and in each case the
\* callback has then been called, so the resolution is over.
C32_OneQueryThenFallback ==
    LET Answered(r, status, rdata) ==
            /\ Len(r.queries) = 1
            /\ Len(r.cbs) = 1
            /\ status = "DNS_NAMEERROR" =>
                   r.lookups = <<>> /\ r.cbs[1].error = "NAME_ERROR"
            /\ (status \notin {"DNS_NAMEERROR", "DNS_OK"}
                    \/ (status = "DNS_OK" /\ rdata = <<>>)) =>
                   /\ Len(r.lookups) = 1
                   /\ r.lookups[1][1] = res.addr.t[1]
                   /\ r.cbs[1].error \in {"", "gaierror"}
    IN  res.phase # "none" =>
            /\ Len(res.queries) <= 1
            /\ res.phase = "waiting" =>
                   /\ ~res.native /\ res.lookups = <<>>
                   /\ \A status \in DnsStatuses : \A rdata \in DnsRecords :
                          Answered(dns_callback(res, res.addr.t, status,
                                                rdata), status, rdata)

\* a resolution that asked the DNS once, fell back to the system resolver
\* and got an address from it
C32_Witness ==
    /\ res.phase = "done"
    /\ Len(res.queries) = 1 /\ Len(res.lookups) = 1
    /\ Len(res.cbs) = 1 /\ res.cbs[1].error = ""


\* C33: when the DNS answers DNS_OK with records, in whatever order, the
\* callback gets the first IPv6 record if the platform has IPv6 and there
\* is one, and otherwise the first IPv4 record, with the family of the
\* record and with the port (and the flow and scope of a 4-tuple) of the
\* address asked for.
C33_FirstRecordOfPreferredFamily ==
    LET V6(rdata) == SelectSeq(rdata, LAMBDA i : i \in V6Literals)
        V4(rdata) == SelectSeq(rdata, LAMBDA i : i \notin V6Literals)
        Got(r, host, family) ==
            /\ Len(r.cbs) = 1
            /\ r.cbs[1].error = ""
            /\ r.cbs[1].addr = AddrTuple(<<host>> \o Tail(res.addr.t))
            /\ r.cbs[1].family = family
        Chosen(r, v6, v4) ==
            IF res.ipv6 /\ v6 # <<>> THEN Got(r, v6[1], "AF_INET6")
            ELSE v4 # <<>> => Got(r, v4[1], "AF_INET")
    IN  res.phase = "waiting" =>
            \A rdata \in DnsRecords \ {<<>>} :
                Chosen(dns_callback(res, res.addr.t, "DNS_OK", rdata),
                       V6(rdata), V4(rdata))


C35_BacklogClamped ==
    LET Platforms == {[name |-> "nt", somaxconn |-> 5],
                      [name |-> "posix", somaxconn |-> 128]}
        Backlogs == {0, 1, 5, 6, 128, 129, 1024}
    IN  (ch.socket /\ ~Active) =>
            \A p \in Platforms : \A backlog \in Backlogs :
                ListenBacklog(p.name, backlog) = Min(backlog, p.somaxconn)


\* C36: once handle_close has fired no other callback of the owner is
\* invoked: in a dispatch, whatever the socket calls answer (the end of the
\* stream and the peer-termination errors included), handle_close is the
\* last callback fired.
C36_CloseNotificationIsLast ==
    LET Last(w) ==
            \A i \in 1..Len(w.fired) :
                w.fired[i] = "handle_close" => i = Len(w.fired)
    IN  eng.registered =>
            \A events \in (SUBSET eng.published) \ {{}} :
            \A a \in {b \in DispatchAnswers(events) : b[1] = <<>>} :
                Last(_handle_events(World(a[1], a[2], a[3], a[4]), events))


\* C37: whatever the owner has assigned to read_delimiter (None, a length
\* that is positive, 0 or negative, a terminator that may be empty), an
\* iteration of the frame loop that delivers a frame leaves read_buffer
\* strictly shorter than it found it, so that the loop of one dispatch
\* ends.  The iteration is the one of a dispatch whose first handler stops
\* the loop by closing the channel.
C37_CarveLoopShrinks ==
    LET Assignable == Delimiters \cup {DelimInt(0), DelimInt(0 - 1),
                                       DelimStr(<<>>)}
        Framing(w, d) == [w EXCEPT !.ch.read_delimiter = d]
        Shrunk(w, before) ==
            w.frames # <<>> => Len(w.ch.read_buffer) < Len(before)
    IN  (Active /\ ch.connected /\ ~ch.listening) =>
            \A c \in ReadChunks : \A d \in Assignable :
                Shrunk(_handle_events(
                           Framing(World(<<"close_immediately">>, <<>>,
                                         <<RecvData(c)>>, <<>>), d),
                           {READ}),
                       ch.read_buffer \o c)


C39_ClosedIsAbsorbing ==
    LET Eager == World(<<"write">>, <<"all">>, <<RecvData(<<1>>)>>,
                       <<"conn">>)
        Inert(w) ==
            /\ ~active(w) /\ ~w.ch.socket
            /\ w.eng = eng /\ w.calls = <<>>
            /\ w.sys = <<>> /\ w.net = net
            /\ w.fired = <<>> /\ w.frames = <<>>
        Same(w) == Inert(w) /\ w.exc = "none" /\ StateOf(w) = StateOf(Quiet)
    IN  Closed =>
            /\ ~eng.registered
            /\ \A result \in ConnectResults : Inert(connect(Eager, result))
            /\ \A bound \in BOOLEAN : Inert(listen(Eager, bound))
            /\ \A n \in WriteLengths : Inert(write(Eager, FreshData(Eager, n)))
            /\ \A length \in FileLengths : Inert(write_file(Eager, 1, length))
            /\ Same(close(Eager))
            /\ Same(close_immediately(Eager))
            /\ \A events \in SUBSET {READ, WRITE, ERROR, HANGUP} :
                   Same(_handle_events(Eager, events))

\* a channel closed with a byte it had not sent yet, on which the owner has
\* then called connect()
C39_Witness ==
    /\ Closed /\ ~eng.registered
    /\ ch.write_buffer # <<>>
    /\ ch.connecting
    /\ obs.closes = 1


\* C40: when connect() on an Idle channel fails at once with a socket error
\* that is not a would-block code, the error is raised and the channel is
\* not left Connecting: it is Idle as before, or Closed.
C40_FailedConnectNotConnecting ==
    LET Hard == ConnectResults \ ({"0", "EISCONN"} \cup WouldBlockResults)
        IdleOrClosed(w) ==
            /\ w.exc = "socket.error"
            /\ ~w.ch.connecting
            /\ ~active(w)
            /\ w.ch.socket => ~w.ch.connected /\ ~w.ch.listening
    IN  Idle => \A result \in Hard : IdleOrClosed(connect(Quiet, result))

============================================================================
